---- MODULE Spec2Model ----
(***************************************************************************)
(* Cross-reference reconciliation and pricing ingestion of the comic       *)
(* cataloguing agent (data_manager.py, models.py).                         *)
(*                                                                         *)
(* The store is the relational schema of models.py.  `db' holds the        *)
(* committed rows of every table, `tx[p]' the rows session p has flushed   *)
(* or added inside its open transaction.  A commit publishes everything    *)
(* in tx[p]; a rollback discards it.  Every handler of data_manager.py is  *)
(* cut at its database statements, so that two sessions interleave exactly *)
(* where two processes on one database can.                                *)
(*                                                                         *)
(* `proc[p]' is session p's position and locals, `api_cache' the TTL cache *)
(* of data_manager.py, `env' the credentials of the environment.  The      *)
(* remotes are fixed for a behaviour: `catalog' is what the catalog        *)
(* answers, `market' what the valuation and listings services answer, and  *)
(* `faulty' says whether database statements may fail.  `workload' is the  *)
(* batch of (title, issue number) requests, `ops' the operations still to  *)
(* be started.  `last' remembers the last reconcile that returned an Issue *)
(* while the store is as it left it, `fetchlog' the last fetch made on its *)
(* own, `batch' the position of a top-level driver (run_workflow.py,       *)
(* agent.py) in its list of comics, `agent' the state dictionary of a      *)
(* ComicBookAgent.                                                         *)
(***************************************************************************)
EXTENDS Integers, Sequences, FiniteSets, TLC

VARIABLES db, tx, proc, api_cache, env, catalog, market, faulty, workload, ops, last, fetchlog,
          batch, agent

vars == <<db, tx, proc, api_cache, env, catalog, market, faulty, workload, ops, last, fetchlog,
          batch, agent>>

---------------------------------------------------------------------------
(* Bounds of the model. *)

\* operations a behaviour starts
MaxOps == 4

\* the sessions (processes) of the model
Sessions == {1, 2}

---------------------------------------------------------------------------
(* Python values. *)

\* None, as an operation's result; a raised exception; a result not yet there
None == 0
Raised == -1
Pending == -2

\* JSON values of a response: an integer, a string, a missing key, a null
JInt(n) == [t |-> "int", n |-> n]
JStr(s) == [t |-> "str", s |-> s]
Missing == [t |-> "missing"]
Null == [t |-> "null"]

\* str(x) of a JSON value, as in str(cv_volume['id'])
PyStr(j) ==
    IF j.t = "str" THEN j.s
    ELSE IF j.n = 1 THEN "1"
    ELSE IF j.n = 2 THEN "2"
    ELSE "93358"

\* d.get(key, default): the default only when the key is missing
Get(j, default) == IF j = Missing THEN default ELSE j

\* Python truthiness of a JSON value
Truthy(j) ==
    /\ j # Missing
    /\ j # Null
    /\ j # JStr("")
    /\ j # JInt(0)

---------------------------------------------------------------------------
(* Strings as character sequences, and SQL ILIKE. *)

Lower(c) ==
    IF c = "A" THEN "a"
    ELSE IF c = "S" THEN "s"
    ELSE IF c = "M" THEN "m"
    ELSE IF c = "B" THEN "b"
    ELSE c

\* pattern matching of LIKE: % is any run of characters, _ any one character
RECURSIVE LikeMatch(_, _)
LikeMatch(pat, str) ==
    IF pat = <<>> THEN str = <<>>
    ELSE IF Head(pat) = "%"
        THEN \/ LikeMatch(Tail(pat), str)
             \/ str # <<>> /\ LikeMatch(pat, Tail(str))
    ELSE IF str = <<>> THEN FALSE
    ELSE /\ \/ Head(pat) = "_"
            \/ Lower(Head(pat)) = Lower(Head(str))
         /\ LikeMatch(Tail(pat), Tail(str))

\* a comparison of the whole title, without the wildcards around it
ILikeExact(series_title, title) == LikeMatch(series_title, title)

\* Series.title.ilike(f"%{series_title}%")
ILikeContains(series_title, title) ==
    LikeMatch(<<"%">> \o series_title \o <<"%">>, title)

\* title contains series_title, compared case-insensitively
RECURSIVE PrefixCI(_, _)
PrefixCI(a, b) ==
    IF a = <<>> THEN TRUE
    ELSE IF b = <<>> THEN FALSE
    ELSE Lower(Head(a)) = Lower(Head(b)) /\ PrefixCI(Tail(a), Tail(b))

RECURSIVE ContainsCI(_, _)
ContainsCI(title, sub) ==
    \/ PrefixCI(sub, title)
    \/ title # <<>> /\ ContainsCI(Tail(title), sub)

---------------------------------------------------------------------------
(* The inputs of the model. *)

\* stand-ins for series titles: "ASM" is the catalog's name of a run, "sm" a
\* fragment of it in another case, "AM" an abbreviation that is no substring
\* of it
TitleASM == <<"A", "S", "M">>
TitleSm == <<"s", "m">>
TitleAM == <<"A", "M">>
Titles == {TitleASM, TitleSm, TitleAM}

IssueNumbers == {"101", "102"}

\* a volume of the catalog's search response
Volume(id, name, publisher, start_year, image) ==
    [id |-> id, name |-> name, publisher |-> publisher,
     start_year |-> start_year, image |-> image]

Publisher == [t |-> "obj", name |-> JStr("Marvel")]
Image == [t |-> "obj", original_url |-> JStr("u")]

\* a response of the catalog: an object with a "results" list
ResultsOf(l) == [t |-> "obj", results |-> l]

VolumeOk == Volume(JInt(1), JStr(TitleASM), Publisher, JStr("1963"), Image)
VolumeBare == Volume(JInt(2), Missing, Missing, Missing, Missing)
VolumeStrId == Volume(JStr("V1"), JStr(TitleASM), Publisher, Null, Image)
VolumeNoId == Volume(Missing, JStr(TitleASM), Publisher, JStr("1963"), Image)
VolumeNullPublisher == Volume(JInt(1), JStr(TitleASM), Null, JStr("1963"), Image)
VolumeBadYear == Volume(JInt(2), JStr(TitleASM), Publisher, JStr("n/a"), Image)

\* an issue of the catalog's issues response
CvIssue(id, issue_number, image) ==
    [id |-> id, issue_number |-> issue_number, image |-> image]

\* the remote catalogs of the model: what a search for a title and the issues
\* of a volume answer, for as long as a behaviour lasts
CatalogClean ==
    [search |-> [t \in Titles |-> ResultsOf(<<VolumeOk, VolumeBare>>)],
     issues |-> (1 :> ResultsOf(<<CvIssue(JInt(1), JStr("101"), Image),
                                  CvIssue(JInt(2), JStr("102"), Missing)>>)
                 @@ 2 :> ResultsOf(<<>>))]

CatalogBare ==
    [search |-> [t \in Titles |-> ResultsOf(<<VolumeBare>>)],
     issues |-> (1 :> [t |-> "obj"]
                 @@ 2 :> ResultsOf(<<CvIssue(JInt(1), Missing, Image),
                                     CvIssue(Missing, JStr("101"), Image),
                                     CvIssue(JInt(2), JStr("102"), Null)>>))]

CatalogStrId ==
    [search |-> [t \in Titles |-> ResultsOf(<<VolumeStrId>>)],
     issues |-> (1 :> ResultsOf(<<CvIssue(JStr("I1"), JStr("101"), Image)>>)
                 @@ 2 :> ResultsOf(<<>>))]

CatalogMalformed ==
    [search |-> (TitleASM :> ResultsOf(<<VolumeNoId>>)
                 @@ TitleSm :> ResultsOf(<<VolumeNullPublisher>>)
                 @@ TitleAM :> ResultsOf(<<VolumeBadYear>>)),
     issues |-> (1 :> ResultsOf(<<>>) @@ 2 :> ResultsOf(<<>>))]

CatalogEmpty ==
    [search |-> (TitleASM :> ResultsOf(<<>>)
                 @@ TitleSm :> [t |-> "obj"]
                 @@ TitleAM :> ResultsOf(<<VolumeOk>>)),
     issues |-> (1 :> ResultsOf(<<CvIssue(JStr("I1"), JStr("101"), Image)>>)
                 @@ 2 :> ResultsOf(<<>>))]

\* an item of the listings response
Item(itemId, title, itemWebUrl, price, condition) ==
    [itemId |-> itemId, title |-> title, itemWebUrl |-> itemWebUrl,
     price |-> price, condition |-> condition]

Price(value) == [t |-> "obj", value |-> JStr(value), currency |-> JStr("USD")]

ItemFull == Item(JStr("e1"), JStr("t1"), JStr("w1"), Price("9.99"), JStr("Used"))
ItemSparse == Item(JStr("e2"), JStr("t2"), Missing, Missing, Missing)
ItemNoId == Item(Missing, JStr("t3"), JStr("w3"), Price("5.00"), Missing)
ItemNullPrice == Item(JStr("e4"), JStr("t4"), JStr("w4"), Null, JStr("New"))

ItemsOf(l) == [t |-> "obj", itemSummaries |-> l]
ValueOf(v) == [t |-> "obj", value |-> v]

\* the pricing remotes of the model: the valuation of a comic at a grade, in
\* cents, and the listings a query finds
MarketGood ==
    [valuation |-> ValueOf(JInt(1000)), listings |-> ItemsOf(<<ItemFull, ItemSparse>>)]
MarketOdd ==
    [valuation |-> ValueOf(JInt(1234)), listings |-> ItemsOf(<<ItemFull, ItemNoId>>)]
MarketBad ==
    [valuation |-> ValueOf(JStr("n/a")), listings |-> ItemsOf(<<ItemNullPrice>>)]
MarketNoValue ==
    [valuation |-> ValueOf(JInt(0)), listings |-> ItemsOf(<<>>)]
MarketSilent ==
    [valuation |-> [t |-> "obj"], listings |-> [t |-> "obj"]]

Catalogs == {CatalogClean, CatalogBare, CatalogStrId, CatalogMalformed, CatalogEmpty}

\* a remote that values the comic at `cents' and finds no listing
MarketValued(cents) ==
    [valuation |-> ValueOf(JInt(cents)), listings |-> ItemsOf(<<>>)]

\* valuations in cents, one for each remainder of the amount modulo 5
Amounts == {1, 2, 3, 4, 1999}

Markets ==
    {MarketGood, MarketOdd, MarketBad, MarketNoValue, MarketSilent}
    \cup {MarketValued(c) : c \in Amounts}

\* grade guesses, in tenths, and f"{grade_guess:.1f}"
Grades == {80, 95}
GradeStr(g) == [units |-> g \div 10, tenths |-> g % 10]

\* the (title, issue number) pairs a batch may ask for
Requests == Titles \X IssueNumbers

\* decimal strings and the integers they denote
Decimal(s) ==
    IF s = "1" THEN 1
    ELSE IF s = "2" THEN 2
    ELSE IF s = "1963" THEN 1963
    ELSE IF s = "93358" THEN 93358
    ELSE -1

\* int(s): the integer a decimal string denotes, ValueError otherwise
PyIntOk(s) == Decimal(s) # -1
PyInt(s) == Decimal(s)

\* the credentials of the environment
Credentials == {"COMICVINE_KEY", "GOCOLLECT_KEY", "EBAY_TOKEN"}

---------------------------------------------------------------------------
(* The HTTP fetch layer: _make_api_request. *)

MaxAttempts == 3

\* what one HTTP attempt may end in: a response that raise_for_status() accepts,
\* an HTTPError with its status, or another RequestException
AttemptOk == [kind |-> "ok", exc |-> "none", status |-> 200]
HttpError(status) == [kind |-> "fail", exc |-> "HTTPError", status |-> status]
TransportError(exc) == [kind |-> "fail", exc |-> exc, status |-> 0]

AttemptOutcomes ==
    {AttemptOk} \cup {HttpError(s) : s \in {401, 403, 404, 500}}
        \cup {TransportError(e) : e \in {"Timeout"}}

\* a loop that also gives up on a server error
NonRetryableWith500 == {401, 403, 404, 500}

\* a loop that gives up on the authorisation errors alone
NonRetryableAuthOnly == {401, 403}

NonRetryable == {401, 403, 404}

\* a retry loop with the except clause for HTTPError alone
CaughtByFetchHttpOnly(exc) == exc = "HTTPError"

\* the exception classes the two except clauses of the retry loop catch
CaughtByFetch(exc) == exc \in {"HTTPError", "ConnectionError", "Timeout"}

\* the retry loop from attempt `attempt' on: how it ends, the requests it
\* issues and the seconds it sleeps
RECURSIVE RetryLoop(_, _)
RetryLoop(outs, attempt) ==
    IF attempt >= MaxAttempts
    THEN [ok |-> FALSE, raised |-> FALSE, http |-> 0, sleeps |-> <<>>]
    ELSE LET o == outs[attempt + 1] IN
         IF o.kind = "ok"
         THEN [ok |-> TRUE, raised |-> FALSE, http |-> 1, sleeps |-> <<>>]
         ELSE IF ~CaughtByFetch(o.exc)
         THEN [ok |-> FALSE, raised |-> TRUE, http |-> 1, sleeps |-> <<>>]
         ELSE IF o.exc = "HTTPError" /\ o.status \in NonRetryable
         THEN [ok |-> FALSE, raised |-> FALSE, http |-> 1, sleeps |-> <<>>]
         ELSE LET r == RetryLoop(outs, attempt + 1) IN
              [ok |-> r.ok, raised |-> r.raised, http |-> r.http + 1,
               sleeps |-> <<2 ^ attempt>> \o r.sleeps]

EmptyObject == [t |-> "obj"]

CacheKeys(cache) == {e.key : e \in cache}
CacheGet(cache, key) == (CHOOSE e \in cache : e.key = key).val
CachePut(cache, key, val) ==
    {e \in cache : e.key # key} \cup {[key |-> key, val |-> val]}

\* _make_api_request(url, params, headers) with the cache `cache', the remote
\* answering attempt i with outs[i] and, on success, with `payload'
MakeApiRequest(cache, key, outs, payload) ==
    IF key \in CacheKeys(cache)
    THEN [data |-> CacheGet(cache, key), raised |-> FALSE, http |-> 0,
          sleeps |-> <<>>, cache |-> cache, hit |-> TRUE]
    ELSE LET r == RetryLoop(outs, 0) IN
         [data |-> IF r.ok THEN payload ELSE EmptyObject,
          raised |-> r.raised, http |-> r.http, sleeps |-> r.sleeps,
          cache |-> IF r.ok THEN CachePut(cache, key, payload) ELSE cache,
          hit |-> FALSE]

---------------------------------------------------------------------------
(* The store: the tables of models.py and a session's transaction. *)

Tables ==
    {"source", "series", "issue", "source_xref",
     "price_snapshot", "graded_price", "market_listing"}

EmptyStore == [t \in Tables |-> {}]

\* what session p reads: the committed rows and its own uncommitted ones
View(p) == [t \in Tables |-> db[t] \cup tx[p][t]]

SetMax(S) == CHOOSE m \in S : \A x \in S : x <= m

\* the next autoincrement id of table t
NextId(t) ==
    SetMax({0} \cup {r.id : r \in db[t] \cup UNION {tx[q][t] : q \in Sessions}}) + 1

\* Source.name is unique
SourceUnique(rows) ==
    \A a, b \in rows : a.name = b.name => a.id = b.id

\* _series_issue_uc: (series_id, issue_number) is unique
IssueUnique(rows) ==
    \A a, b \in rows :
        (a.series_id = b.series_id /\ a.issue_number = b.issue_number) => a.id = b.id

\* _source_entity_external_uc: (source_id, entity_type, external_id) is unique
XrefUnique(rows) ==
    \A a, b \in rows :
        (/\ a.source_id = b.source_id
         /\ a.entity_type = b.entity_type
         /\ a.external_id = b.external_id) => a.id = b.id

\* nullable=False columns that the handlers fill from a response
NotNull(store) ==
    /\ \A r \in store.series : r.title # Null
    /\ \A r \in store.market_listing : r.listing_id # Null /\ r.title # Null

\* a schema without _source_entity_external_uc
ConstraintsOkNoXref(store) ==
    /\ SourceUnique(store.source)
    /\ IssueUnique(store.issue)
    /\ NotNull(store)

\* the constraints the database checks on INSERT and again on COMMIT
ConstraintsOk(store) ==
    /\ SourceUnique(store.source)
    /\ IssueUnique(store.issue)
    /\ XrefUnique(store.source_xref)
    /\ NotNull(store)

\* the constraint a store breaks
Violated(store) ==
    IF ~SourceUnique(store.source) THEN "sources_name_key"
    ELSE IF ~IssueUnique(store.issue) THEN "_series_issue_uc"
    ELSE IF ~XrefUnique(store.source_xref) THEN "_source_entity_external_uc"
    ELSE IF ~NotNull(store) THEN "not_null"
    ELSE "none"

\* session p's view with `rows' inserted into table t
Inserted(p, t, rows) == [View(p) EXCEPT ![t] = @ \cup rows]

\* db.add(row); db.flush(): the row joins p's transaction
TxAdd(p, t, rows) == [tx EXCEPT ![p][t] = @ \cup rows]

\* a commit that writes the session's rows over the tables they belong to
CommittedOver(pending) ==
    [t \in Tables |-> IF pending[t] = {} THEN db[t] ELSE pending[t]]

\* db.commit(): everything p's transaction holds becomes durable
Committed(pending) == [t \in Tables |-> db[t] \cup pending[t]]

\* .first() of a query: the row with the lowest id, None without rows
First(rows) ==
    IF rows = {} THEN None
    ELSE (CHOOSE r \in rows : \A q \in rows : r.id <= q.id).id

---------------------------------------------------------------------------
(* A session's position in a handler and its locals. *)

Idle ==
    [pc |-> "idle", op |-> "none", title |-> <<>>, num |-> "", series |-> 0,
     created |-> 0, vol |-> Missing, cvi |-> Missing, ext |-> "",
     sname |-> "", source |-> 0, ret |-> "", result |-> Pending,
     calls |-> 0, fault |-> FALSE, conflict |-> "none",
     wrote |-> FALSE, expect |-> 0, issue |-> 0, grade |-> GradeStr(0),
     pricing |-> Missing, listings |-> <<>>, ebay |-> FALSE]

NoLast == [title |-> <<>>, num |-> "", issue |-> 0]

Set(p, r) == proc' = [proc EXCEPT ![p] = r]

\* the handler returns `result'; its other locals go out of scope
Return(r, result) ==
    [Idle EXCEPT !.pc = "done", !.op = r.op, !.result = result,
                 !.title = r.title, !.num = r.num, !.issue = r.issue,
                 !.created = r.created, !.calls = r.calls,
                 !.fault = r.fault, !.conflict = r.conflict,
                 !.wrote = r.wrote, !.expect = r.expect, !.ebay = r.ebay]

\* a database statement fails (connection lost, lock timeout, bad value)
Faulted(r) == [r EXCEPT !.fault = TRUE]

\* a constraint rejects an INSERT or a COMMIT (IntegrityError)
Conflicted(r, store) == [r EXCEPT !.conflict = Violated(store)]

\* the row of `rows' with the lowest id
FirstRow(rows) == CHOOSE r \in rows : \A q \in rows : r.id <= q.id

---------------------------------------------------------------------------
(* The except clauses.  Each gives the session's record after the handler  *)
(* and whether the handler rolls the transaction back.                     *)

\* a reconcile with the except clause for SQLAlchemyError alone
ReconcileExceptDatabaseOnly(r, exc) ==
    [rec |-> Return(r, IF exc = "SQLAlchemyError" THEN None ELSE Raised),
     rollback |-> TRUE]

\* get_or_create_issue_from_comicvine: except SQLAlchemyError / except Exception
ReconcileExcept(r, exc) ==
    [rec |-> Return(r, None), rollback |-> TRUE]

\* _get_or_create_series_from_comicvine: except SQLAlchemyError; the caller
\* returns None for a series of None
SeriesExcept(r, exc) ==
    IF exc = "SQLAlchemyError"
    THEN [rec |-> Return(r, None), rollback |-> TRUE]
    ELSE ReconcileExcept(r, exc)

\* an except clause that returns None and forgets db.rollback()
IssueExceptNoRollback(r, exc) ==
    [rec |-> Return(r, None), rollback |-> FALSE]

\* _get_or_create_issue_for_series: except SQLAlchemyError
IssueExcept(r, exc) ==
    IF exc = "SQLAlchemyError"
    THEN [rec |-> Return(r, None), rollback |-> TRUE]
    ELSE ReconcileExcept(r, exc)

\* update_pricing_for_issue has no except clause of its own: what the
\* valuation helper raises outside its try block leaves the call
PricingUncaught(r, exc) ==
    [rec |-> Return(r, Raised), rollback |-> FALSE]

\* _update_gocollect_pricing: except SQLAlchemyError / except Exception; the
\* listings sub-flow runs next
GoCollectExcept(r, exc) ==
    [rec |-> [r EXCEPT !.pc = "E_fetch"], rollback |-> TRUE]

\* a listings sub-flow whose except clauses forget db.rollback()
EbayExceptNoRollback(r, exc) ==
    [rec |-> Return(r, None), rollback |-> FALSE]

\* _update_ebay_listings: except SQLAlchemyError / except Exception
EbayExcept(r, exc) ==
    [rec |-> Return(r, None), rollback |-> TRUE]

\* the __main__ script of data_manager.py catches nothing
ScriptUncaught(r, exc) ==
    [rec |-> Return(r, Raised), rollback |-> TRUE]

\* where an exception raised inside get_or_create_source lands: in the
\* clause around the call the session returns to
CallerExcept(r, exc) ==
    IF r.ret = "S_commit" THEN SeriesExcept(r, exc)
    ELSE IF r.ret = "I_xref" THEN ReconcileExcept(r, exc)
    ELSE IF r.ret = "G_xref" THEN PricingUncaught(r, exc)
    ELSE IF r.ret = "E_commit" THEN EbayExcept(r, exc)
    ELSE ScriptUncaught(r, exc)

\* get_or_create_source: except SQLAlchemyError: db.rollback(); raise
SourceExcept(r, exc) ==
    [rec |-> CallerExcept(r, exc).rec, rollback |-> TRUE]

Throw(p, h) ==
    /\ Set(p, h.rec)
    /\ tx' = IF h.rollback THEN [tx EXCEPT ![p] = EmptyStore] ELSE tx

\* the exception is raised after `pending' was added to the session
ThrowPending(p, h, pending) ==
    /\ Set(p, h.rec)
    /\ tx' = [tx EXCEPT ![p] = IF h.rollback THEN EmptyStore ELSE pending]

\* a database statement may fail only where the database is unreliable
Fault(p, h) == faulty /\ Throw(p, h)

DbFaults == IF faulty THEN BOOLEAN ELSE {FALSE}

\* the last reconcile that returned an Issue, while the store is as it left it
Track(p) ==
    last' =
        IF proc'[p].pc = "done" /\ proc'[p].op = "reconcile" /\ proc'[p].result > 0
        THEN [title |-> proc'[p].title, num |-> proc'[p].num,
              issue |-> proc'[p].result]
        ELSE IF db' # db THEN NoLast
        ELSE last

---------------------------------------------------------------------------
(* The catalog client. *)

\* the attempt outcomes the engine's fetches are run against
CallPatterns ==
    { <<AttemptOk, AttemptOk, AttemptOk>>,
      <<HttpError(500), TransportError("Timeout"), AttemptOk>>,
      <<TransportError("ConnectionError"), HttpError(404), AttemptOk>> }

SearchKey(series_title) == [url |-> "search", query |-> series_title]
IssuesKey(volume_id) == [url |-> "issues", volume |-> volume_id]

\* what the remote answers a successful request with
SearchPayload(series_title) == catalog.search[series_title]
IssuesPayload(volume_id) ==
    IF volume_id \in DOMAIN catalog.issues THEN catalog.issues[volume_id]
    ELSE EmptyObject

\* a client that makes up a candidate when the response holds none
ResultsOrStub(data) ==
    IF "results" \in DOMAIN data /\ data.results # <<>> THEN data.results
    ELSE <<VolumeBare>>

\* data.get("results", [])
Results(data) == IF "results" \in DOMAIN data THEN data.results ELSE <<>>

\* a catalog client that does not look at the credential
CatalogCallNoCheck(key, outs, payload) ==
    LET f == MakeApiRequest(api_cache, key, outs, payload) IN
    [results |-> Results(f.data), raised |-> f.raised, http |-> f.http,
     sleeps |-> f.sleeps, cache |-> f.cache]

\* search_comicvine_volume / get_comicvine_issues_for_volume: no request
\* without the credential
CatalogCall(key, outs, payload) ==
    IF "COMICVINE_KEY" \notin env
    THEN [results |-> <<>>, raised |-> FALSE, http |-> 0, sleeps |-> <<>>,
          cache |-> api_cache]
    ELSE LET f == MakeApiRequest(api_cache, key, outs, payload) IN
         [results |-> Results(f.data), raised |-> f.raised, http |-> f.http,
          sleeps |-> f.sleeps, cache |-> f.cache]

\* x.get(key, {}).get(inner): AttributeError when x[key] is null
NestedGet(j, inner) ==
    IF j = Null THEN [exc |-> "AttributeError", val |-> Null]
    ELSE IF j = Missing \/ inner \notin DOMAIN j THEN [exc |-> "none", val |-> Null]
    ELSE [exc |-> "none", val |-> j[inner]]

\* int(x) if x else None, for a start_year
StartYear(j) ==
    IF ~Truthy(j) THEN [exc |-> "none", val |-> Null]
    ELSE IF j.t = "int" THEN [exc |-> "none", val |-> j]
    ELSE IF PyIntOk(j.s) THEN [exc |-> "none", val |-> JInt(PyInt(j.s))]
    ELSE [exc |-> "ValueError", val |-> Null]

\* Series(title=..., publisher=..., start_year=..., cover_url=...)
BuildSeries(cv_volume, series_title, id) ==
    LET pub == NestedGet(cv_volume.publisher, "name")
        year == StartYear(cv_volume.start_year)
        img == NestedGet(cv_volume.image, "original_url")
        name == Get(cv_volume.name, JStr(series_title))
    IN  [exc |-> IF pub.exc # "none" THEN pub.exc
                 ELSE IF year.exc # "none" THEN year.exc
                 ELSE img.exc,
         row |-> [id |-> id,
                  title |-> IF name = Null THEN Null ELSE name.s,
                  publisher |-> pub.val, start_year |-> year.val,
                  cover_url |-> img.val]]

\* next((iss for iss in cv_issues if iss.get("issue_number") == issue_number), None)
RECURSIVE FindIssue(_, _)
FindIssue(cv_issues, issue_number) ==
    IF cv_issues = <<>> THEN Missing
    ELSE IF Head(cv_issues).issue_number = JStr(issue_number) THEN Head(cv_issues)
    ELSE FindIssue(Tail(cv_issues), issue_number)

\* Issue(series_id=..., issue_number=..., cover_date=..., cover_url=...)
BuildIssue(found, series_id, issue_number, id) ==
    LET img == NestedGet(found.image, "original_url") IN
    [exc |-> img.exc,
     row |-> [id |-> id, series_id |-> series_id,
              issue_number |-> Get(found.issue_number, JStr(issue_number)).s,
              cover_url |-> img.val]]

XrefRow(id, source_id, entity_type, entity_id, external_id) ==
    [id |-> id, source_id |-> source_id, entity_type |-> entity_type,
     entity_id |-> entity_id, external_id |-> external_id]

---------------------------------------------------------------------------
(* get_or_create_source(db, name, url): a lookup and, without a row, an    *)
(* insert with its own commit.                                             *)

\* source = db.query(Source).filter(Source.name == name).first()
GS_Query(p) ==
    LET r == proc[p]
        found == {s \in View(p).source : s.name = r.sname}
    IN  /\ r.pc = "GS_query"
        /\ \/ Fault(p, SourceExcept(Faulted(r), "SQLAlchemyError"))
           \/ /\ found # {}
              /\ Set(p, [r EXCEPT !.source = First(found), !.pc = r.ret])
              /\ UNCHANGED tx
           \/ /\ found = {}
              /\ Set(p, [r EXCEPT !.pc = "GS_commit"])
              /\ UNCHANGED tx
        /\ UNCHANGED <<db, api_cache, env, catalog, market, faulty, workload, agent, batch, ops, fetchlog>>
        /\ Track(p)

\* db.add(source); db.commit(); db.refresh(source): the commit publishes
\* whatever else the session has flushed
GS_Commit(p) ==
    LET r == proc[p]
        row == [id |-> NextId("source"), name |-> r.sname]
        pending == TxAdd(p, "source", {row})[p]
    IN  /\ r.pc = "GS_commit"
        /\ \/ /\ Fault(p, SourceExcept(Faulted(r), "SQLAlchemyError"))
              /\ UNCHANGED db
           \/ /\ ~ConstraintsOk(Committed(pending))
              /\ Throw(p, SourceExcept(Conflicted(r, Committed(pending)),
                                   "SQLAlchemyError"))
              /\ UNCHANGED db
           \/ /\ ConstraintsOk(Committed(pending))
              /\ db' = Committed(pending)
              /\ \/ /\ Set(p, [r EXCEPT !.source = row.id, !.pc = r.ret,
                                       !.wrote = TRUE])
                    /\ tx' = [tx EXCEPT ![p] = EmptyStore]
                 \/ Fault(p, SourceExcept(Faulted([r EXCEPT !.wrote = TRUE]),
                                          "SQLAlchemyError"))
        /\ UNCHANGED <<api_cache, env, catalog, market, faulty, workload, agent, batch, ops, fetchlog>>
        /\ Track(p)

---------------------------------------------------------------------------
(* get_or_create_issue_from_comicvine(db, series_title, issue_number).     *)

StartReconcile(p) ==
    /\ proc[p].pc \in {"idle", "done"}
    /\ ops > 0
    /\ ops' = ops - 1
    /\ \E q \in workload :
          Set(p, [Idle EXCEPT !.pc = "R_lookup", !.op = "reconcile",
                              !.title = q[1], !.num = q[2],
                              !.expect = IF last.title = q[1] /\ last.num = q[2]
                                         THEN last.issue ELSE 0])
    /\ UNCHANGED <<db, tx, api_cache, env, catalog, market, faulty, workload, agent, batch, last, fetchlog>>

\* the Issues the fast path's query selects
FastPathMatches(store, series_title, issue_number) ==
    {i \in store.issue :
        /\ i.issue_number = issue_number
        /\ \E s \in store.series :
              s.id = i.series_id /\ ILikeContains(series_title, s.title)}

\* the optimized lookup for an existing issue
R_Lookup(p) ==
    LET r == proc[p]
        matches == FastPathMatches(View(p), r.title, r.num)
    IN  /\ r.pc = "R_lookup"
        /\ \/ Fault(p, ReconcileExcept(Faulted(r), "SQLAlchemyError"))
           \/ /\ Set(p, IF matches # {} THEN Return(r, First(matches))
                        ELSE [r EXCEPT !.pc = "S_lookup"])
              /\ UNCHANGED tx
        /\ UNCHANGED <<db, api_cache, env, catalog, market, faulty, workload, agent, batch, ops, fetchlog>>
        /\ Track(p)

\* series = db.query(Series).filter(Series.title.ilike(...)).first()
S_Lookup(p) ==
    LET r == proc[p]
        matches == {s \in View(p).series : ILikeContains(r.title, s.title)}
    IN  /\ r.pc = "S_lookup"
        /\ \/ Fault(p, ReconcileExcept(Faulted(r), "SQLAlchemyError"))
           \/ /\ Set(p, IF matches # {}
                        THEN [r EXCEPT !.series = First(matches), !.pc = "GS_query",
                                       !.sname = "Comic Vine", !.ret = "I_xref"]
                        ELSE [r EXCEPT !.pc = "S_create"])
              /\ UNCHANGED tx
        /\ UNCHANGED <<db, api_cache, env, catalog, market, faulty, workload, agent, batch, ops, fetchlog>>
        /\ Track(p)

\* the catalog search, the new Series and its flush
S_SearchFlush(p) ==
    LET r == proc[p] IN
    /\ r.pc = "S_create"
    /\ \E outs \in CallPatterns, fault \in DbFaults :
          LET c == CatalogCall(SearchKey(r.title), outs, SearchPayload(r.title))
              r1 == [r EXCEPT !.calls = @ + 1]
              b == BuildSeries(c.results[1], r.title, NextId("series"))
          IN  /\ api_cache' = c.cache
              /\ IF c.raised
                 THEN Throw(p, ReconcileExcept(r1, "Exception"))
                 ELSE IF c.results = <<>>
                 THEN Set(p, Return(r1, None)) /\ UNCHANGED tx
                 ELSE IF b.exc # "none"
                 THEN Throw(p, SeriesExcept(r1, b.exc))
                 ELSE IF fault
                 THEN Fault(p, SeriesExcept(Faulted(r1), "SQLAlchemyError"))
                 ELSE IF ~ConstraintsOk(Inserted(p, "series", {b.row}))
                 THEN Throw(p, SeriesExcept(Conflicted(r1, Inserted(p, "series", {b.row})),
                                              "SQLAlchemyError"))
                 ELSE /\ tx' = TxAdd(p, "series", {b.row})
                      /\ Set(p, [r1 EXCEPT !.series = b.row.id, !.created = b.row.id,
                                           !.vol = c.results[1], !.wrote = TRUE,
                                           !.pc = "GS_query", !.sname = "Comic Vine",
                                           !.ret = "S_commit"])
    /\ UNCHANGED <<db, env, catalog, market, faulty, workload, agent, batch, ops, fetchlog>>
    /\ Track(p)

\* the series cross-reference flushed, its db.commit() left to the issue step
S_CommitFlushOnly(p) ==
    LET r == proc[p]
        row == XrefRow(NextId("source_xref"), r.source, "series", r.series,
                       PyStr(r.vol.id))
    IN  /\ r.pc = "S_commit"
        /\ IF r.vol.id = Missing
           THEN Throw(p, SeriesExcept(r, "KeyError"))
           ELSE \/ Fault(p, SeriesExcept(Faulted(r), "SQLAlchemyError"))
                \/ /\ tx' = TxAdd(p, "source_xref", {row})
                   /\ Set(p, [r EXCEPT !.pc = "GS_query", !.ret = "I_xref"])
        /\ UNCHANGED <<db, api_cache, env, catalog, market, faulty, workload, agent, batch, ops,
                       fetchlog>>
        /\ Track(p)

\* the series cross-reference and the commit
S_Commit(p) ==
    LET r == proc[p]
        row == XrefRow(NextId("source_xref"), r.source, "series", r.series,
                       PyStr(r.vol.id))
        pending == TxAdd(p, "source_xref", {row})[p]
    IN  /\ r.pc = "S_commit"
        /\ IF r.vol.id = Missing
           THEN Throw(p, SeriesExcept(r, "KeyError")) /\ UNCHANGED db
           ELSE \/ /\ Fault(p, SeriesExcept(Faulted(r), "SQLAlchemyError"))
                   /\ UNCHANGED db
                \/ IF ConstraintsOk(Committed(pending))
                   THEN /\ db' = Committed(pending)
                        /\ tx' = [tx EXCEPT ![p] = EmptyStore]
                        /\ Set(p, [r EXCEPT !.pc = "GS_query", !.ret = "I_xref"])
                   ELSE /\ Throw(p, SeriesExcept(Conflicted(r, Committed(pending)),
                                   "SQLAlchemyError"))
                        /\ UNCHANGED db
        /\ UNCHANGED <<api_cache, env, catalog, market, faulty, workload, agent, batch, ops, fetchlog>>
        /\ Track(p)

\* xref_series = db.query(SourceXref).filter_by(...).first()
I_Xref(p) ==
    LET r == proc[p]
        found == {x \in View(p).source_xref :
                     /\ x.source_id = r.source
                     /\ x.entity_type = "series"
                     /\ x.entity_id = r.series}
    IN  /\ r.pc = "I_xref"
        /\ \/ Fault(p, ReconcileExcept(Faulted(r), "SQLAlchemyError"))
           \/ /\ Set(p, IF found = {} THEN Return(r, None)
                        ELSE [r EXCEPT !.ext = FirstRow(found).external_id,
                                       !.pc = "I_create"])
              /\ UNCHANGED tx
        /\ UNCHANGED <<db, api_cache, env, catalog, market, faulty, workload, agent, batch, ops, fetchlog>>
        /\ Track(p)

\* the catalog's issues of the volume, the match, the new Issue and its flush
I_FetchFlush(p) ==
    LET r == proc[p] IN
    /\ r.pc = "I_create"
    /\ IF ~PyIntOk(r.ext)
       THEN Throw(p, ReconcileExcept(r, "ValueError")) /\ UNCHANGED api_cache
       ELSE \E outs \in CallPatterns, fault \in DbFaults :
          LET c == CatalogCall(IssuesKey(PyInt(r.ext)), outs, IssuesPayload(PyInt(r.ext)))
              r1 == [r EXCEPT !.calls = @ + 1]
              found == FindIssue(c.results, r.num)
              b == BuildIssue(found, r.series, r.num, NextId("issue"))
          IN  /\ api_cache' = c.cache
              /\ IF c.raised
                 THEN Throw(p, ReconcileExcept(r1, "Exception"))
                 ELSE IF found = Missing
                 THEN Set(p, Return(r1, None)) /\ UNCHANGED tx
                 ELSE IF b.exc # "none"
                 THEN Throw(p, IssueExcept(r1, b.exc))
                 ELSE IF fault
                 THEN Fault(p, IssueExcept(Faulted(r1), "SQLAlchemyError"))
                 ELSE IF ~ConstraintsOk(Inserted(p, "issue", {b.row}))
                 THEN Throw(p, IssueExcept(Conflicted(r1, Inserted(p, "issue", {b.row})),
                                             "SQLAlchemyError"))
                 ELSE /\ tx' = TxAdd(p, "issue", {b.row})
                      /\ Set(p, [r1 EXCEPT !.issue = b.row.id, !.cvi = found,
                                           !.wrote = TRUE, !.pc = "I_commit"])
    /\ UNCHANGED <<db, env, catalog, market, faulty, workload, agent, batch, ops, fetchlog>>
    /\ Track(p)

\* the issue cross-reference and the commit
I_Commit(p) ==
    LET r == proc[p]
        row == XrefRow(NextId("source_xref"), r.source, "issue", r.issue,
                       PyStr(r.cvi.id))
        pending == TxAdd(p, "source_xref", {row})[p]
    IN  /\ r.pc = "I_commit"
        /\ IF r.cvi.id = Missing
           THEN Throw(p, IssueExcept(r, "KeyError")) /\ UNCHANGED db
           ELSE \/ /\ Fault(p, IssueExcept(Faulted(r), "SQLAlchemyError"))
                   /\ UNCHANGED db
                \/ IF ConstraintsOk(Committed(pending))
                   THEN /\ db' = Committed(pending)
                        /\ tx' = [tx EXCEPT ![p] = EmptyStore]
                        /\ Set(p, Return(r, r.issue))
                   ELSE /\ Throw(p, IssueExcept(Conflicted(r, Committed(pending)),
                                   "SQLAlchemyError"))
                        /\ UNCHANGED db
        /\ UNCHANGED <<api_cache, env, catalog, market, faulty, workload, agent, batch, ops, fetchlog>>
        /\ Track(p)

---------------------------------------------------------------------------
(* The pricing clients: both memoised in api_cache by @cached. *)

GoCollectFnKey(comic_id, grade) == [fn |-> "get_gocollect_pricing", comic_id |-> comic_id, grade |-> grade]
GoCollectKey(comic_id, grade) == [url |-> "insights/item", comic_id |-> comic_id, grade |-> grade]
EbayFnKey(query) == [fn |-> "search_ebay_listings", query |-> query]
EbayKey(query) == [url |-> "item_summary/search", q |-> query]

\* @cached(cache=api_cache): the stored value for the arguments, else the
\* call's value, stored whatever it is
Cached(fnkey, call) ==
    IF fnkey \in CacheKeys(api_cache)
    THEN [val |-> CacheGet(api_cache, fnkey), raised |-> FALSE, http |-> 0,
          sleeps |-> <<>>, cache |-> api_cache]
    ELSE IF call.raised THEN call
    ELSE [call EXCEPT !.cache = CachePut(call.cache, fnkey, call.val)]

\* get_gocollect_pricing(comic_id, grade)
GetGoCollectPricing(comic_id, grade, outs) ==
    Cached(GoCollectFnKey(comic_id, grade),
           IF "GOCOLLECT_KEY" \notin env
           THEN [val |-> EmptyObject, raised |-> FALSE, http |-> 0, sleeps |-> <<>>,
                 cache |-> api_cache]
           ELSE LET f == MakeApiRequest(api_cache, GoCollectKey(comic_id, grade),
                                        outs, market.valuation)
                IN  [val |-> f.data, raised |-> f.raised, http |-> f.http,
                     sleeps |-> f.sleeps, cache |-> f.cache])

\* data.get("itemSummaries", [])
ItemSummaries(data) ==
    IF "itemSummaries" \in DOMAIN data THEN data.itemSummaries ELSE <<>>

\* search_ebay_listings(query)
SearchEbayListings(query, outs) ==
    Cached(EbayFnKey(query),
           IF "EBAY_TOKEN" \notin env
           THEN [val |-> <<>>, raised |-> FALSE, http |-> 0, sleeps |-> <<>>,
                 cache |-> api_cache]
           ELSE LET f == MakeApiRequest(api_cache, EbayKey(query), outs,
                                        market.listings)
                IN  [val |-> ItemSummaries(f.data), raised |-> f.raised,
                     http |-> f.http, sleeps |-> f.sleeps, cache |-> f.cache])

---------------------------------------------------------------------------
(* update_pricing_for_issue(db, issue, grade_guess). *)

StartPricing(p) ==
    /\ proc[p].pc \in {"idle", "done"}
    /\ ops > 0
    /\ ops' = ops - 1
    /\ \E i \in db.issue, g \in Grades :
          Set(p, [Idle EXCEPT !.pc = "GS_query", !.op = "pricing",
                              !.issue = i.id, !.grade = GradeStr(g),
                              !.sname = "GoCollect", !.ret = "G_xref"])
    /\ UNCHANGED <<db, tx, api_cache, env, catalog, market, faulty, workload, agent, batch, last, fetchlog>>

\* xref = db.query(SourceXref).filter_by(...).first(), outside the try block
G_Xref(p) ==
    LET r == proc[p]
        found == {x \in View(p).source_xref :
                     /\ x.source_id = r.source
                     /\ x.entity_type = "issue"
                     /\ x.entity_id = r.issue}
    IN  /\ r.pc = "G_xref"
        /\ \/ Fault(p, PricingUncaught(Faulted(r), "SQLAlchemyError"))
           \/ /\ Set(p, IF found = {} THEN [r EXCEPT !.pc = "E_fetch"]
                        ELSE [r EXCEPT !.ext = FirstRow(found).external_id,
                                       !.pc = "G_fetch"])
              /\ UNCHANGED tx
        /\ UNCHANGED <<db, api_cache, env, catalog, market, faulty, workload, agent, batch, ops, fetchlog>>
        /\ Track(p)

\* a snapshot kept once per issue: a later one takes the place of the earlier
SnapshotRowPerIssue(id, issue_id, source_id, payload) ==
    [id |-> issue_id, issue_id |-> issue_id, source_id |-> source_id, payload |-> payload]

SnapshotRow(id, issue_id, source_id, payload) ==
    [id |-> id, issue_id |-> issue_id, source_id |-> source_id, payload |-> payload]

\* the valuation lookup, the snapshot and its flush
G_FetchFlush(p) ==
    LET r == proc[p] IN
    /\ r.pc = "G_fetch"
    /\ \E outs \in CallPatterns, fault \in DbFaults :
          LET c == GetGoCollectPricing(r.ext, r.grade, outs)
              r1 == [r EXCEPT !.calls = @ + 1]
              fmv == IF "value" \in DOMAIN c.val THEN c.val.value ELSE Missing
              row == SnapshotRow(NextId("price_snapshot"), r.issue, r.source, c.val)
          IN  /\ api_cache' = c.cache
              /\ IF c.raised
                 THEN Throw(p, GoCollectExcept(r1, "Exception"))
                 ELSE IF c.val = EmptyObject \/ ~Truthy(fmv)
                 THEN Set(p, [r1 EXCEPT !.pc = "E_fetch"]) /\ UNCHANGED tx
                 ELSE IF fault
                 THEN Fault(p, GoCollectExcept(Faulted(r1), "SQLAlchemyError"))
                 ELSE /\ tx' = TxAdd(p, "price_snapshot", {row})
                      /\ Set(p, [r1 EXCEPT !.pricing = fmv, !.series = row.id,
                                           !.wrote = TRUE, !.pc = "G_commit"])
    /\ UNCHANGED <<db, env, catalog, market, faulty, workload, agent, batch, ops, fetchlog>>
    /\ Track(p)

\* float(fmv): ValueError for a string that is no number
FloatOk(j) == j.t = "int" \/ (j.t = "str" /\ PyIntOk(j.s))
Cents(j) == IF j.t = "int" THEN j.n ELSE PyInt(j.s)

\* 80 % of the amount with the fraction of a cent cut off
ConservativeTruncated(cents) == (cents * 8) \div 10

\* float(fmv) * 0.8 in a Numeric(12, 2) column: cents, rounded to the nearest
Conservative(cents) == (cents * 8 + 5) \div 10

\* the GradedPrice row and the commit
G_Commit(p) ==
    LET r == proc[p]
        row == [id |-> NextId("graded_price"), snapshot_id |-> r.series,
                grade_label |-> r.grade, fmv_usd |-> Cents(r.pricing),
                conservative_value_usd |-> Conservative(Cents(r.pricing))]
        pending == TxAdd(p, "graded_price", {row})[p]
    IN  /\ r.pc = "G_commit"
        /\ IF ~FloatOk(r.pricing)
           THEN Throw(p, GoCollectExcept(r, "ValueError")) /\ UNCHANGED db
           ELSE \/ /\ Fault(p, GoCollectExcept(Faulted(r), "SQLAlchemyError"))
                   /\ UNCHANGED db
                \/ /\ db' = Committed(pending)
                   /\ tx' = [tx EXCEPT ![p] = EmptyStore]
                   /\ Set(p, [r EXCEPT !.pc = "E_fetch"])
        /\ UNCHANGED <<api_cache, env, catalog, market, faulty, workload, agent, batch, ops, fetchlog>>
        /\ Track(p)

\* search_query = f'"{issue.series.title}" "{issue.issue_number}"'
SearchQuery(issue_id) ==
    LET i == CHOOSE x \in db.issue : x.id = issue_id
        s == CHOOSE x \in db.series : x.id = i.series_id
    IN  [title |-> s.title, issue_number |-> i.issue_number]

\* the listings search
E_Fetch(p) ==
    LET r == proc[p] IN
    /\ r.pc = "E_fetch"
    /\ \E outs \in CallPatterns :
          LET c == SearchEbayListings(SearchQuery(r.issue), outs)
              r1 == [r EXCEPT !.calls = @ + 1, !.ebay = TRUE]
          IN  /\ api_cache' = c.cache
              /\ IF c.raised
                 THEN Throw(p, EbayExcept(r1, "Exception"))
                 ELSE /\ Set(p, IF c.val = <<>> THEN Return(r1, None)
                                ELSE [r1 EXCEPT !.listings = c.val, !.pc = "GS_query",
                                                !.sname = "eBay", !.ret = "E_commit"])
                      /\ UNCHANGED tx
    /\ UNCHANGED <<db, env, catalog, market, faulty, workload, agent, batch, ops, fetchlog>>
    /\ Track(p)

\* item.get(key): None for a missing key
GetOrNull(j) == IF j = Missing THEN Null ELSE j

\* MarketListing(snapshot_id=..., listing_id=item.get("itemId"), ...)
BuildListing(item, snapshot_id, id) ==
    LET value == NestedGet(item.price, "value")
        currency == NestedGet(item.price, "currency")
    IN  [exc |-> value.exc,
         row |-> [id |-> id, snapshot_id |-> snapshot_id,
                  listing_id |-> GetOrNull(item.itemId), title |-> GetOrNull(item.title),
                  url |-> GetOrNull(item.itemWebUrl), price_usd |-> value.val,
                  currency |-> currency.val, condition |-> GetOrNull(item.condition)]]

\* the listings snapshot, one MarketListing per item and the commit
E_Commit(p) ==
    LET r == proc[p]
        snap == SnapshotRow(NextId("price_snapshot"), r.issue, r.source,
                            [listings |-> r.listings])
        first == NextId("market_listing")
        built == [k \in 1..Len(r.listings) |->
                     BuildListing(r.listings[k], snap.id, first + k - 1)]
        rows == {built[k].row : k \in 1..Len(r.listings)}
        pending == [tx[p] EXCEPT !["price_snapshot"] = @ \cup {snap},
                                 !["market_listing"] = @ \cup rows]
        flushed == [tx[p] EXCEPT !["price_snapshot"] = @ \cup {snap}]
    IN  /\ r.pc = "E_commit"
        /\ \/ /\ faulty
              /\ ThrowPending(p, EbayExcept(Faulted(r), "SQLAlchemyError"), pending)
              /\ UNCHANGED db
           \/ IF \E k \in 1..Len(r.listings) : built[k].exc # "none"
              THEN ThrowPending(p, EbayExcept(r, "AttributeError"), flushed)
                   /\ UNCHANGED db
              ELSE IF ~ConstraintsOk(Committed(pending))
              THEN ThrowPending(p, EbayExcept(Conflicted(r, Committed(pending)),
                                              "SQLAlchemyError"), pending)
                   /\ UNCHANGED db
              ELSE /\ db' = Committed(pending)
                   /\ tx' = [tx EXCEPT ![p] = EmptyStore]
                   /\ Set(p, Return([r EXCEPT !.wrote = TRUE], None))
        /\ UNCHANGED <<api_cache, env, catalog, market, faulty, workload, agent, batch, ops, fetchlog>>
        /\ Track(p)

---------------------------------------------------------------------------
(* The __main__ script of data_manager.py links an issue to the valuation  *)
(* source by hand.                                                         *)

MockGoCollectId == "93358"

StartLink(p) ==
    /\ proc[p].pc \in {"idle", "done"}
    /\ ops > 0
    /\ ops' = ops - 1
    /\ \E i \in db.issue :
          Set(p, [Idle EXCEPT !.pc = "GS_query", !.op = "link", !.issue = i.id,
                              !.sname = "GoCollect", !.ret = "L_xref"])
    /\ UNCHANGED <<db, tx, api_cache, env, catalog, market, faulty, workload, agent, batch, last, fetchlog>>

\* the lookup of the cross-reference and, without one, its insert and commit
L_Xref(p) ==
    LET r == proc[p]
        found == {x \in View(p).source_xref :
                     /\ x.source_id = r.source
                     /\ x.entity_type = "issue"
                     /\ x.entity_id = r.issue}
        row == XrefRow(NextId("source_xref"), r.source, "issue", r.issue,
                       MockGoCollectId)
        pending == TxAdd(p, "source_xref", {row})[p]
    IN  /\ r.pc = "L_xref"
        /\ \/ /\ Fault(p, ScriptUncaught(Faulted(r), "SQLAlchemyError"))
              /\ UNCHANGED db
           \/ IF found # {}
              THEN Set(p, Return(r, None)) /\ UNCHANGED <<db, tx>>
              ELSE IF ConstraintsOk(Committed(pending))
              THEN /\ db' = Committed(pending)
                   /\ tx' = [tx EXCEPT ![p] = EmptyStore]
                   /\ Set(p, Return([r EXCEPT !.wrote = TRUE], None))
              ELSE /\ Throw(p, ScriptUncaught(Conflicted(r, Committed(pending)),
                                   "SQLAlchemyError"))
                   /\ UNCHANGED db
        /\ UNCHANGED <<api_cache, env, catalog, market, faulty, workload, agent, batch, ops, fetchlog>>
        /\ Track(p)

---------------------------------------------------------------------------
(* One fetch on its own: _make_api_request against every pattern of       *)
(* attempt outcomes.                                                       *)

NoFetch ==
    [key |-> SearchKey(<<>>), outs |-> <<>>, hit |-> FALSE, ok |-> FALSE,
     raised |-> FALSE, http |-> 0, sleeps |-> <<>>, data |-> EmptyObject,
     stored |-> FALSE]

FetchKeys == {SearchKey(TitleASM), IssuesKey(1)}

FetchPayload(key) ==
    IF key.url = "search" THEN SearchPayload(key.query) ELSE IssuesPayload(key.volume)

Fetch ==
    /\ \E key \in FetchKeys, outs \in [1..MaxAttempts -> AttemptOutcomes] :
          LET f == MakeApiRequest(api_cache, key, outs, FetchPayload(key)) IN
          /\ api_cache' = f.cache
          /\ fetchlog' = [key |-> key, outs |-> outs, hit |-> f.hit,
                          ok |-> f.hit \/ (~f.raised /\ f.data # EmptyObject),
                          raised |-> f.raised, http |-> f.http,
                          sleeps |-> f.sleeps, data |-> f.data,
                          stored |-> [key |-> key, val |-> f.data] \in f.cache]
    /\ UNCHANGED <<db, tx, proc, env, catalog, market, faulty, workload, agent, batch, ops, last>>

\* TTLCache(maxsize=1024, ttl=3600): an entry leaves the cache when its hour
\* is over
Expire ==
    /\ \E e \in api_cache : api_cache' = api_cache \ {e}
    /\ UNCHANGED <<db, tx, proc, env, catalog, market, faulty, workload, agent, batch, ops, last, fetchlog>>

---------------------------------------------------------------------------
(* The specifications. *)

\* the steps of a reconcile that has started
ReconcileSteps(p) ==
    \/ R_Lookup(p)
    \/ S_Lookup(p)
    \/ S_SearchFlush(p)
    \/ S_Commit(p)
    \/ I_Xref(p)
    \/ I_FetchFlush(p)
    \/ I_Commit(p)
    \/ GS_Query(p)
    \/ GS_Commit(p)

Reconcile(p) == StartReconcile(p) \/ ReconcileSteps(p)

\* the steps of a pricing run that has started
PricingSteps(p) ==
    \/ G_Xref(p)
    \/ G_FetchFlush(p)
    \/ G_Commit(p)
    \/ E_Fetch(p)
    \/ E_Commit(p)

Pricing(p) == StartPricing(p) \/ PricingSteps(p)

Link(p) ==
    \/ StartLink(p)
    \/ L_Xref(p)

\* no driver at work
NoBatch == [driver |-> "none", items |-> <<>>, pos |-> 0, halted |-> FALSE]

\* no agent at work
NoAgent ==
    [vision |-> <<>>, series_title |-> <<>>, issue_number |-> "", defects |-> <<>>,
     issue_id |-> 0, grade |-> <<>>, is_finished |-> TRUE, raised |-> FALSE, steps |-> 0]

\* an empty store, no session at work, a cold cache
Fresh ==
    /\ batch = NoBatch
    /\ agent = NoAgent
    /\ db = EmptyStore
    /\ tx = [p \in Sessions |-> EmptyStore]
    /\ proc = [p \in Sessions |-> Idle]
    /\ api_cache = {}
    /\ ops = MaxOps
    /\ last = NoLast
    /\ fetchlog = NoFetch

\* one session reconciles a batch against any of the catalogs
Init ==
    /\ Fresh
    /\ env \in {Credentials, {}}
    /\ catalog \in Catalogs
    /\ market = MarketSilent
    /\ faulty = TRUE
    /\ workload = Requests

Next == Reconcile(1)

Spec == Init /\ [][Next]_vars

\* one session reconciles one comic, links it to the valuation source and
\* prices it, against any of the markets
\* all credentials set, or one of them missing
Environments == {Credentials} \cup {Credentials \ {k} : k \in Credentials}

InitPricing ==
    /\ Fresh
    /\ env \in Environments
    /\ catalog = CatalogClean
    /\ market \in Markets
    /\ faulty = TRUE
    /\ workload = {<<TitleASM, "101">>}

NextPricing == Reconcile(1) \/ Link(1) \/ Pricing(1)

SpecPricing == InitPricing /\ [][NextPricing]_vars

\* two sessions on one database
InitRace ==
    /\ Fresh
    /\ env = Credentials
    /\ catalog = CatalogClean
    /\ market = MarketGood
    /\ faulty = FALSE
    /\ workload = {<<TitleASM, "101">>, <<TitleAM, "101">>}

NextRace == \E p \in Sessions : Reconcile(p) \/ Link(p) \/ Pricing(p)

SpecRace == InitRace /\ [][NextRace]_vars

\* the fetch layer alone
InitFetch ==
    /\ Fresh
    /\ env = Credentials
    /\ catalog = CatalogClean
    /\ market = MarketSilent
    /\ faulty = FALSE
    /\ workload = {}

NextFetch == Fetch \/ Expire

SpecFetch == InitFetch /\ [][NextFetch]_vars

---------------------------------------------------------------------------
(* Properties of reconcile.                                                *)

\* session p has returned from a reconcile
Reconciled(p) == proc[p].pc = "done" /\ proc[p].op = "reconcile"

\* no session is inside an operation
AtRest == \A p \in Sessions : proc[p].pc \in {"idle", "done"}

\* the committed cross-references of one entity
XrefsOf(entity_type, entity_id) ==
    {x \in db.source_xref : x.entity_type = entity_type /\ x.entity_id = entity_id}

\* C1: a reconcile that follows a reconcile of the same (title, issue number)
\* which returned an Issue, on the store as that call left it and without a
\* database failure, returns the same Issue and calls no catalog client.
C1_Idempotent ==
    \A p \in Sessions :
        (Reconciled(p) /\ proc[p].expect > 0 /\ ~proc[p].fault)
            => (proc[p].result = proc[p].expect /\ proc[p].calls = 0)

\* C2: whenever no operation is under way, every committed Series has a
\* committed cross-reference of type 'series'.
C2_SeriesHasXref ==
    AtRest => \A s \in db.series : XrefsOf("series", s.id) # {}

\* C3: every committed Issue has a committed cross-reference of type 'issue',
\* every committed 'issue' cross-reference names a committed Issue, and a
\* reconcile that has returned holds no uncommitted Issue or cross-reference.
C3_IssueAtomic ==
    /\ \A i \in db.issue : XrefsOf("issue", i.id) # {}
    /\ \A x \in db.source_xref :
          x.entity_type = "issue" => \E i \in db.issue : i.id = x.entity_id
    /\ \A p \in Sessions :
          Reconciled(p) => tx[p].issue = {} /\ tx[p].source_xref = {}

\* a reconcile flushed an Issue, failed before its commit and left nothing
C3_Witness ==
    \E p \in Sessions :
        /\ Reconciled(p)
        /\ proc[p].issue > 0
        /\ proc[p].result = None
        /\ \A i \in db.issue : i.id # proc[p].issue
        /\ tx[p] = EmptyStore

\* C4: a reconcile whose cross-reference insert hits the uniqueness constraint
\* returns the existing Issue.
C4_ConflictRecovered ==
    \A p \in Sessions :
        (Reconciled(p) /\ proc[p].conflict = "_source_entity_external_uc")
            => proc[p].result > 0

\* C5: no two committed cross-references share (source_id, entity_type,
\* external_id).
C5_XrefUnique ==
    \A a, b \in db.source_xref :
        (/\ a.source_id = b.source_id
         /\ a.entity_type = b.entity_type
         /\ a.external_id = b.external_id) => a = b

\* a second cross-reference for a linked external record was refused
C5_Witness ==
    \E p \in Sessions :
        /\ proc[p].pc = "done"
        /\ proc[p].conflict = "_source_entity_external_uc"
        /\ db.source_xref # {}

---------------------------------------------------------------------------
(* Properties of pricing.                                                  *)

\* session p has left update_pricing_for_issue
Priced(p) == proc[p].pc = "done" /\ proc[p].op = "pricing"

\* C6: update_pricing_for_issue never raises and always runs the listings
\* sub-flow, whatever happens in the valuation sub-flow.
C6_ListingsAlwaysRun ==
    \A p \in Sessions : Priced(p) => (proc[p].result # Raised /\ proc[p].ebay)

---------------------------------------------------------------------------
(* Further properties of reconcile.                                        *)

\* C7: a reconcile that has returned has returned None or a committed Issue,
\* never an exception, and holds no open transaction.
C7_NeverThrows ==
    \A p \in Sessions :
        Reconciled(p) =>
            /\ \/ proc[p].result = None
               \/ \E i \in db.issue : i.id = proc[p].result
            /\ tx[p] = EmptyStore

\* a reconcile returned None after a malformed response or a database failure
\* met rows it had flushed
C7_Witness ==
    \E p \in Sessions :
        /\ Reconciled(p)
        /\ proc[p].result = None
        /\ proc[p].wrote
        /\ proc[p].calls > 0
        /\ tx[p] = EmptyStore

\* the first operation on the empty store was a reconcile of ("ASM", "101")
\* that met no database failure and whose catalog search was answered
FirstReconcileASM101(p) ==
    /\ Reconciled(p)
    /\ ops = MaxOps - 1
    /\ proc[p].title = TitleASM
    /\ proc[p].num = "101"
    /\ ~proc[p].fault
    /\ SearchKey(TitleASM) \in CacheKeys(api_cache)

\* one Series, one Issue numbered "101", two cross-references, and the Issue
\* returned
OneSeriesOneIssue(p) ==
    /\ Cardinality(db.series) = 1
    /\ Cardinality(db.issue) = 1
    /\ Cardinality(db.source_xref) = 2
    /\ \E i \in db.issue : i.id = proc[p].result /\ i.issue_number = "101"

\* C8, as stated: with the catalog naming the volume "V1" and the issue "I1",
\* the first reconcile of ("ASM", "101") on an empty store persists one Series,
\* one Issue and two cross-references and returns the Issue.
C8_EndToEndV1 ==
    \A p \in Sessions :
        (FirstReconcileASM101(p) /\ catalog = CatalogStrId) => OneSeriesOneIssue(p)

\* the store p reads holds an Issue numbered `num' in a Series whose title
\* contains `title', compared without case
HoldsIssue(p, title, num) ==
    \E i \in View(p).issue, s \in View(p).series :
        /\ i.issue_number = num
        /\ i.series_id = s.id
        /\ ContainsCI(s.title, title)

\* C9: when the store holds an Issue with the requested number in a Series
\* whose title contains the requested title, the lookup of a reconcile, unless
\* the query itself fails, returns such an Issue, with no catalog call and no
\* change of the store, the transaction or the cache.
C9_FastPath ==
    [][\A p \in Sessions :
          (/\ proc[p].pc = "R_lookup"
           /\ proc'[p] # proc[p]
           /\ ~proc'[p].fault
           /\ HoldsIssue(p, proc[p].title, proc[p].num))
          => /\ proc'[p].pc = "done"
             /\ \E i \in db.issue, s \in db.series :
                   /\ i.id = proc'[p].result
                   /\ i.issue_number = proc[p].num
                   /\ i.series_id = s.id
                   /\ ContainsCI(s.title, proc[p].title)
             /\ proc'[p].calls = 0
             /\ ~proc'[p].wrote
             /\ db' = db /\ tx' = tx /\ api_cache' = api_cache]_vars

\* a reconcile of a fragment of the title, in another case, was answered from
\* the store
C9_Witness ==
    \E p \in Sessions :
        /\ Reconciled(p)
        /\ proc[p].title = TitleSm
        /\ proc[p].result > 0
        /\ proc[p].calls = 0
        /\ ~proc[p].wrote

---------------------------------------------------------------------------
(* Properties of the fetch layer.                                          *)

\* the fetch last made went to the remote
Missed == fetchlog.outs # <<>> /\ ~fetchlog.hit

\* C10: a fetch on a cache miss issues at most 3 requests, does not raise and,
\* when none of its requests succeeded, returns the empty object.
C10_Exhaustion ==
    Missed =>
        /\ fetchlog.http <= 3
        /\ ~fetchlog.raised
        /\ (\A i \in 1..fetchlog.http : fetchlog.outs[i].kind # "ok")
              => fetchlog.data = EmptyObject

\* three retryable failures, of both kinds, and the empty object
C10_Witness ==
    /\ Missed
    /\ fetchlog.http = 3
    /\ \A i \in 1..3 : fetchlog.outs[i].kind = "fail"
    /\ \E i \in 1..3 : fetchlog.outs[i].exc = "Timeout"
    /\ \E i \in 1..3 : fetchlog.outs[i].exc = "HTTPError"
    /\ fetchlog.data = EmptyObject

\* attempt i of the fetch last made failed and is retried
Retried(i) ==
    /\ fetchlog.outs[i].kind = "fail"
    /\ ~(fetchlog.outs[i].exc = "HTTPError" /\ fetchlog.outs[i].status \in {401, 403, 404})

RECURSIVE Sum(_)
Sum(seq) == IF seq = <<>> THEN 0 ELSE Head(seq) + Sum(Tail(seq))

\* C11: a fetch answered 500, 500 and then a success returns the payload of
\* the success, leaves it in the cache and has slept 1 s and then 2 s, 3 s in
\* all.
C11_Backoff ==
    (/\ Missed
     /\ fetchlog.outs[1] = HttpError(500)
     /\ fetchlog.outs[2] = HttpError(500)
     /\ fetchlog.outs[3] = AttemptOk)
    => /\ fetchlog.data = FetchPayload(fetchlog.key)
       /\ fetchlog.data # EmptyObject
       /\ fetchlog.stored
       /\ fetchlog.http = 3
       /\ fetchlog.sleeps = <<1, 2>>
       /\ Sum(fetchlog.sleeps) >= 3

C11_Witness ==
    /\ Missed
    /\ fetchlog.outs = <<HttpError(500), HttpError(500), AttemptOk>>
    /\ fetchlog.stored
    /\ fetchlog.sleeps = <<1, 2>>

\* C12: the first attempt of a fetch that receives 401, 403 or 404 is its last
\* request, no sleep follows it and the fetch returns the empty object; a 404
\* on attempt 1 makes one request.
C12_NonRetry ==
    Missed =>
        \A i \in 1..3 :
            (/\ fetchlog.outs[i].exc = "HTTPError"
             /\ fetchlog.outs[i].status \in {401, 403, 404}
             /\ \A j \in 1..(i - 1) : Retried(j))
            => /\ fetchlog.http = i
               /\ Len(fetchlog.sleeps) = i - 1
               /\ fetchlog.data = EmptyObject
               /\ ~fetchlog.stored

C12_Witness ==
    /\ Missed
    /\ fetchlog.outs[1] = HttpError(404)
    /\ fetchlog.outs[2] = AttemptOk
    /\ fetchlog.http = 1
    /\ fetchlog.sleeps = <<>>
    /\ fetchlog.data = EmptyObject

\* C13: a fetch whose three attempts all fail with retryable errors sleeps 1 s
\* after the first and 2 s after the second attempt and not after the third.
C13_NoSleepAfterLast ==
    (Missed /\ \A i \in 1..3 : Retried(i)) => fetchlog.sleeps = <<1, 2>>

\* the entries @cached holds for the two pricing clients
Memoised(fn) == {e \in api_cache : "fn" \in DOMAIN e.key /\ e.key.fn = fn}

\* C14: api_cache answers a valuation or a listings lookup only with a
\* successful response: no entry memoised for the arguments of
\* get_gocollect_pricing or search_ebay_listings holds the empty result of an
\* exhausted fetch, of a non-retryable status or of a missing credential, so
\* the next lookup with these arguments is made again.
C14_OnlySuccessCached ==
    /\ \A e \in Memoised("get_gocollect_pricing") : e.val = market.valuation
    /\ \A e \in Memoised("search_ebay_listings") : e.val = ItemSummaries(market.listings)

---------------------------------------------------------------------------
(* The cache key of _make_api_request, with the parameters as the dict     *)
(* the caller passes: a sequence of (name, value) pairs in insertion       *)
(* order.                                                                  *)

\* the parameter names the clients pass, in the order sorted() gives them
ParamNames == <<"api_key", "query">>
Rank(name) == CHOOSE i \in 1..Len(ParamNames) : ParamNames[i] = name

Items(params) == {params[i] : i \in 1..Len(params)}

\* sorted(params.items()): the pairs by ascending name
Sorted(params) ==
    CHOOSE s \in [1..Len(params) -> Items(params)] :
        \A i, j \in 1..Len(params) : i < j => Rank(s[i][1]) < Rank(s[j][1])

\* a cache key that keeps the parameters in the caller's order
CacheKeyUnsorted(url, params) == [url |-> url, params |-> params]

\* cache_key = f"{url}?{str(sorted(params.items()))}"
CacheKey(url, params) == [url |-> url, params |-> Sorted(params)]

FetchUrls == {"search", "issues"}
FetchHeaders == {"json", "bearer"}
ParamDicts ==
    { <<<<"api_key", "k">>, <<"query", TitleASM>>>>,
      <<<<"query", TitleASM>>, <<"api_key", "k">>>> }
FetchRequests == [url : FetchUrls, params : ParamDicts, headers : FetchHeaders]

\* what the remote answers a request with: the answer depends on the url and
\* on the parameter set, and changes from one day's edition to the next
Editions == {1, 2}
RemotePayload(req, edition) ==
    [t |-> "obj", url |-> req.url, params |-> Items(req.params), edition |-> edition]

\* _make_api_request(url, params, headers)
FetchRequest ==
    /\ \E req \in FetchRequests, outs \in CallPatterns, edition \in Editions :
          LET key == CacheKey(req.url, req.params)
              f == MakeApiRequest(api_cache, key, outs, RemotePayload(req, edition))
          IN  /\ api_cache' = f.cache
              /\ fetchlog' = [key |-> key, outs |-> outs, hit |-> f.hit,
                              ok |-> f.hit \/ (~f.raised /\ f.data # EmptyObject),
                              raised |-> f.raised, http |-> f.http,
                              sleeps |-> f.sleeps, data |-> f.data,
                              stored |-> [key |-> key, val |-> f.data] \in f.cache,
                              req |-> req]
    /\ UNCHANGED <<db, tx, proc, env, catalog, market, faulty, workload, agent, batch, ops, last>>

\* fetches of one process against its cache, whose entries expire
NextCache == FetchRequest \/ Expire

SpecCache == InitFetch /\ [][NextCache]_vars

\* the cache entries that answer a request for this url and parameter set
EntriesFor(req) ==
    {e \in api_cache : /\ "params" \in DOMAIN e.key
                       /\ e.key.url = req.url
                       /\ Items(e.key.params) = Items(req.params)}

\* C15: a fetch made while the cache holds the payload of an earlier
\* successful fetch for the same url and the same parameter set, whatever the
\* order of the parameters and whatever the headers, returns that payload and
\* issues no HTTP request; a fetch made when no such entry is left (it
\* expired) issues a request again.
C15_CacheHit ==
    [][fetchlog' # fetchlog =>
          IF EntriesFor(fetchlog'.req) # {}
          THEN /\ fetchlog'.http = 0
               /\ \A e \in EntriesFor(fetchlog'.req) : fetchlog'.data = e.val
               /\ api_cache' = api_cache
          ELSE fetchlog'.http >= 1]_vars

\* a hit for a request whose parameters come in another order than the key's
\* and whose payload is the other edition than the remote has now
C15_Witness ==
    /\ fetchlog.hit
    /\ fetchlog.http = 0
    /\ fetchlog.req.params # fetchlog.key.params
    /\ fetchlog.req.headers = "bearer"
    /\ fetchlog.data.edition = 1
    /\ [key |-> fetchlog.key, val |-> fetchlog.data] \in api_cache

---------------------------------------------------------------------------
(* What a pricing run leaves in the store. *)

SourceId(name) == {s.id : s \in {x \in db.source : x.name = name}}

\* the issue has a SourceXref under the valuation source
HasValuationXref(issue_id) ==
    \E x \in db.source_xref :
        /\ x.source_id \in SourceId("GoCollect")
        /\ x.entity_type = "issue"
        /\ x.entity_id = issue_id

\* the items the listings search returned for the issue
ListingsFound(issue_id) ==
    LET hits == {e \in Memoised("search_ebay_listings") :
                    e.key.query = SearchQuery(issue_id)}
    IN  IF hits = {} THEN <<>> ELSE (CHOOSE e \in hits : TRUE).val

SnapshotsOf(issue_id, name) ==
    {s \in db.price_snapshot : s.issue_id = issue_id /\ s.source_id \in SourceId(name)}

ListingsOf(snapshot) == {m \in db.market_listing : m.snapshot_id = snapshot.id}

\* C16: after update_pricing_for_issue for an issue without a SourceXref
\* under the valuation source, no database statement having failed, the store
\* holds no valuation PriceSnapshot and no GradedPrice of the issue, and, when
\* the listings search returned items, a listings snapshot of the issue with
\* one MarketListing row per item.
C16_NoValuationXref ==
    \A p \in Sessions :
        (/\ Priced(p)
         /\ ~proc[p].fault
         /\ ~HasValuationXref(proc[p].issue))
        => /\ SnapshotsOf(proc[p].issue, "GoCollect") = {}
           /\ \A g \in db.graded_price :
                 \A s \in db.price_snapshot :
                    s.id = g.snapshot_id => s.issue_id # proc[p].issue
           /\ ListingsFound(proc[p].issue) # <<>>
              => \E s \in SnapshotsOf(proc[p].issue, "eBay") :
                    /\ s.payload = [listings |-> ListingsFound(proc[p].issue)]
                    /\ Cardinality(ListingsOf(s)) = Len(ListingsFound(proc[p].issue))

\* the MarketListing row holds the fields of the item, None for a missing one
RowOfItem(m, item) ==
    /\ m.listing_id = GetOrNull(item.itemId)
    /\ m.title = GetOrNull(item.title)
    /\ m.url = GetOrNull(item.itemWebUrl)
    /\ m.condition = GetOrNull(item.condition)
    /\ item.price = Missing => m.price_usd = Null /\ m.currency = Null

\* C17: after a pricing run whose listings search returned n >= 1 items, no
\* database statement having failed, the listings sub-flow has committed its
\* PriceSnapshot with exactly n MarketListing rows, one per item, also for
\* items that lack itemId, title, itemWebUrl, price, currency or condition,
\* whose missing fields are stored as nulls.
C17_MissingFieldsTolerated ==
    \A p \in Sessions :
        LET items == ListingsFound(proc[p].issue) IN
        (/\ Priced(p)
         /\ proc[p].ebay
         /\ ~proc[p].fault
         /\ items # <<>>)
        => /\ proc[p].result # Raised
           /\ SnapshotsOf(proc[p].issue, "eBay") # {}
           /\ \A s \in SnapshotsOf(proc[p].issue, "eBay") :
                 /\ Cardinality(ListingsOf(s)) = Len(items)
                 /\ \A k \in 1..Len(items) :
                       \E m \in ListingsOf(s) : RowOfItem(m, items[k])

\* C18: every GradedPrice row belongs to a valuation snapshot whose response
\* carries the value the row has as fmv_usd, and its conservative_value_usd
\* is round(fmv_usd * 0.8, 2): the cent nearest to 80 % of fmv_usd (amounts
\* in integer cents; 80 % of a whole number of cents never lies halfway
\* between two cents).
C18_Conservative ==
    \A g \in db.graded_price :
        /\ \E s \in db.price_snapshot :
              /\ s.id = g.snapshot_id
              /\ s.payload = market.valuation
              /\ g.fmv_usd = Cents(s.payload.value)
        /\ 10 * g.conservative_value_usd - 8 * g.fmv_usd < 5
        /\ 8 * g.fmv_usd - 10 * g.conservative_value_usd < 5

\* a row whose 80 % was rounded up: 0.02 -> 0.016 -> 0.02
C18_Witness ==
    /\ market = MarketValued(2)
    /\ \E g \in db.graded_price : g.fmv_usd = 2 /\ g.conservative_value_usd = 2

---------------------------------------------------------------------------
(* The top-level drivers: main() of run_workflow.py and the __main__ loop  *)
(* of agent.py.  Both walk a list of comics with one session; for each     *)
(* comic they reconcile the issue the vision step names and, when the      *)
(* reconcile returned an Issue, price it at the grade the defects give.    *)

\* deductions of apply_grading_rules / tool_calculate_grade, in tenths
Deduction(defect) ==
    IF defect \in {"spine_tick", "rubbing_light", "corner_blunt"} THEN 5
    ELSE IF defect = "crease_light" THEN 10
    ELSE 0

RECURSIVE TotalDeduction(_)
TotalDeduction(defects) ==
    IF defects = <<>> THEN 0
    ELSE Deduction(Head(defects)) + TotalDeduction(Tail(defects))

\* max(0.0, base_grade + total_deduction), in tenths
ApplyGradingRules(defects) ==
    IF TotalDeduction(defects) > 100 THEN 0 ELSE 100 - TotalDeduction(defects)

\* what the vision step reports for the comics of the batch
BatchItems ==
    << [series_title |-> TitleASM, issue_number |-> "101",
        defects |-> <<"spine_tick">>],
       [series_title |-> TitleAM, issue_number |-> "101",
        defects |-> <<"spine_tick", "corner_blunt">>] >>

Drivers == {"run_workflow", "agent"}

\* the store an earlier run of data_manager.py has left: one series, its
\* issue 101 and the issue's cross-reference under the valuation source
StoreLinked ==
    [EmptyStore EXCEPT
        !.source = {[id |-> 1, name |-> "Comic Vine"], [id |-> 2, name |-> "GoCollect"]},
        !.series = {[id |-> 1, title |-> TitleASM, publisher |-> JStr("Marvel"),
                     start_year |-> JInt(1963), cover_url |-> JStr("u")]},
        !.issue = {[id |-> 1, series_id |-> 1, issue_number |-> "101",
                    cover_url |-> JStr("u")]},
        !.source_xref = {XrefRow(1, 1, "series", 1, "1"),
                         XrefRow(2, 1, "issue", 1, "1"),
                         XrefRow(3, 2, "issue", 1, MockGoCollectId)}]

Comic == batch.items[batch.pos + 1]

Running == batch.driver \in Drivers /\ ~batch.halted

\* the comic is done with, the loop goes on to the next one
NextItem ==
    /\ batch' = [batch EXCEPT !.pos = @ + 1]
    /\ Set(1, Idle)

\* the loop takes the next comic and calls get_or_create_issue_from_comicvine
D_Begin ==
    /\ Running
    /\ batch.pos < Len(batch.items)
    /\ proc[1].pc = "idle"
    /\ Set(1, [Idle EXCEPT !.pc = "R_lookup", !.op = "reconcile",
                           !.title = Comic.series_title, !.num = Comic.issue_number,
                           !.expect = IF /\ last.title = Comic.series_title
                                         /\ last.num = Comic.issue_number
                                      THEN last.issue ELSE 0])
    /\ UNCHANGED <<db, tx, api_cache, env, catalog, market, faulty, workload, agent, batch,
                   ops, last, fetchlog>>

\* the reconcile returned None: run_workflow.py skips the pricing, the agent
\* sets is_finished
D_Unidentified ==
    /\ Running
    /\ proc[1].pc = "done" /\ proc[1].op = "reconcile"
    /\ proc[1].result = None
    /\ NextItem
    /\ UNCHANGED <<db, tx, api_cache, env, catalog, market, faulty, workload, agent, ops,
                   last, fetchlog>>

\* the reconcile returned an Issue: grade it and call update_pricing_for_issue
D_Identified ==
    /\ Running
    /\ proc[1].pc = "done" /\ proc[1].op = "reconcile"
    /\ proc[1].result > 0
    /\ Set(1, [Idle EXCEPT !.pc = "GS_query", !.op = "pricing",
                           !.issue = proc[1].result,
                           !.grade = GradeStr(ApplyGradingRules(Comic.defects)),
                           !.sname = "GoCollect", !.ret = "G_xref"])
    /\ UNCHANGED <<db, tx, api_cache, env, catalog, market, faulty, workload, agent, batch,
                   ops, last, fetchlog>>

\* update_pricing_for_issue returned
D_Priced ==
    /\ Running
    /\ proc[1].pc = "done" /\ proc[1].op = "pricing"
    /\ proc[1].result # Raised
    /\ NextItem
    /\ UNCHANGED <<db, tx, api_cache, env, catalog, market, faulty, workload, agent, ops,
                   last, fetchlog>>

\* process_single_comic: except Exception: log, db.rollback()
D_Caught ==
    /\ Running
    /\ batch.driver = "run_workflow"
    /\ proc[1].pc = "done" /\ proc[1].op = "pricing"
    /\ proc[1].result = Raised
    /\ NextItem
    /\ tx' = [tx EXCEPT ![1] = EmptyStore]
    /\ UNCHANGED <<db, api_cache, env, catalog, market, faulty, workload, agent, ops,
                   last, fetchlog>>

\* agent.py: nothing around agent.run() catches; the exception ends the script
D_Crash ==
    /\ Running
    /\ batch.driver = "agent"
    /\ proc[1].pc = "done" /\ proc[1].op = "pricing"
    /\ proc[1].result = Raised
    /\ batch' = [batch EXCEPT !.halted = TRUE]
    /\ tx' = [tx EXCEPT ![1] = EmptyStore]
    /\ UNCHANGED <<db, proc, api_cache, env, catalog, market, faulty, workload, agent, ops,
                   last, fetchlog>>

Driver == D_Begin \/ D_Unidentified \/ D_Identified \/ D_Priced \/ D_Caught \/ D_Crash

\* a driver starts on its batch, on a new store or on the store an earlier
\* run has left, with an unreliable database
InitBatch ==
    /\ db \in {EmptyStore, StoreLinked}
    /\ tx = [p \in Sessions |-> EmptyStore]
    /\ proc = [p \in Sessions |-> Idle]
    /\ api_cache = {}
    /\ ops = MaxOps
    /\ last = NoLast
    /\ fetchlog = NoFetch
    /\ batch \in [driver : Drivers, items : {BatchItems}, pos : {0}, halted : {FALSE}]
    /\ agent = NoAgent
    /\ env = Credentials
    /\ catalog = CatalogClean
    /\ market = MarketGood
    /\ faulty = TRUE
    /\ workload = {}

NextBatch == Driver \/ ReconcileSteps(1) \/ PricingSteps(1)

\* the driver is one sequential process: it runs until its loop has ended or
\* an exception has ended it
SpecBatch == InitBatch /\ [][NextBatch]_vars /\ WF_vars(NextBatch)

\* C19: whatever fails while one comic is processed, the driver goes on:
\* every comic of the batch is eventually done with.
C19_BatchContinues == <>(batch.pos = Len(batch.items))

\* C20: no two Source rows share a name, and a session whose Source insert
\* broke the unique name (another session created the row after this one's
\* not-found check) goes on with the existing row of that name instead of
\* leaving get_or_create_source with the exception.
C20_SourceConflictRecovered ==
    /\ \A s1, s2 \in db.source : s1.name = s2.name => s1 = s2
    /\ \A p \in Sessions :
          proc[p].conflict = "sources_name_key"
          => /\ proc[p].result # Raised
             /\ \E s \in db.source : s.name = proc[p].sname /\ s.id = proc[p].source

\* C21: a lookup whose credential is unset returns an empty result, issues no
\* HTTP request and raises nothing, whatever the remote would answer; with
\* the catalog credential unset a reconcile that calls the catalog returns
\* None, and with the valuation or the listings credential unset no snapshot
\* of that sub-flow exists.
C21_MissingCredential ==
    /\ "COMICVINE_KEY" \notin env =>
          /\ \A t \in Titles, outs \in CallPatterns :
                LET c == CatalogCall(SearchKey(t), outs, SearchPayload(t))
                IN  c.results = <<>> /\ c.http = 0 /\ ~c.raised
          /\ \A outs \in CallPatterns :
                LET c == CatalogCall(IssuesKey(1), outs, IssuesPayload(1))
                IN  c.results = <<>> /\ c.http = 0 /\ ~c.raised
          /\ \A p \in Sessions :
                (Reconciled(p) /\ proc[p].calls > 0) => proc[p].result = None
    /\ "GOCOLLECT_KEY" \notin env =>
          /\ \A g \in Grades, outs \in CallPatterns :
                LET c == GetGoCollectPricing(MockGoCollectId, GradeStr(g), outs)
                IN  c.val = EmptyObject /\ c.http = 0 /\ ~c.raised
          /\ \A i \in db.issue : SnapshotsOf(i.id, "GoCollect") = {}
    /\ "EBAY_TOKEN" \notin env =>
          /\ \A i \in db.issue, outs \in CallPatterns :
                LET c == SearchEbayListings(SearchQuery(i.id), outs)
                IN  c.val = <<>> /\ c.http = 0 /\ ~c.raised
          /\ \A i \in db.issue : SnapshotsOf(i.id, "eBay") = {}

\* a pricing run without the valuation credential has made its lookup for a
\* linked issue and gone on to the listings
C21_Witness ==
    /\ "GOCOLLECT_KEY" \notin env
    /\ Priced(1)
    /\ proc[1].ebay
    /\ HasValuationXref(proc[1].issue)
    /\ Memoised("get_gocollect_pricing") # {}

AuditTables == {"price_snapshot", "graded_price", "market_listing"}

\* the value get_gocollect_pricing has memoised for the session's lookup
MemoisedValue(r) ==
    LET hits == {e \in Memoised("get_gocollect_pricing") :
                    e.key = GoCollectFnKey(r.ext, r.grade)}
    IN  IF hits = {} THEN EmptyObject ELSE (CHOOSE e \in hits : TRUE).val

Usable(val) == "value" \in DOMAIN val /\ Truthy(val.value) /\ FloatOk(val.value)

\* C22: no step removes or changes a committed PriceSnapshot, GradedPrice or
\* MarketListing row; a valuation run for a linked issue whose lookup is
\* answered from the cache with a usable value still flushes a snapshot, and
\* a valuation run with a usable value whose database statements succeed
\* commits exactly one new PriceSnapshot and one new GradedPrice.
C22_AppendOnly ==
    [][/\ \A t \in AuditTables : db[t] \subseteq db'[t]
       /\ \A p \in Sessions :
             /\ (/\ proc[p].pc = "G_fetch"
                 /\ Usable(MemoisedValue(proc[p]))
                 /\ ~proc'[p].fault)
                => /\ proc'[p].pc = "G_commit"
                   /\ Cardinality(tx'[p].price_snapshot) = 1
             /\ (/\ proc[p].pc = "G_commit"
                 /\ FloatOk(proc[p].pricing)
                 /\ ~proc'[p].fault)
                => /\ Cardinality(db'.price_snapshot) = Cardinality(db.price_snapshot) + 1
                   /\ Cardinality(db'.graded_price) = Cardinality(db.graded_price) + 1
                   /\ \E s \in db'.price_snapshot \ db.price_snapshot :
                         /\ s.issue_id = proc[p].issue
                         /\ \E g \in db'.graded_price \ db.graded_price :
                               g.snapshot_id = s.id]_vars

\* two valuation runs for one issue have left two snapshots with the same
\* payload, the second served from the cache, and two GradedPrice rows
C22_Witness ==
    /\ Cardinality(SnapshotsOf(1, "GoCollect")) = 2
    /\ \A s \in SnapshotsOf(1, "GoCollect") : s.payload = market.valuation
    /\ Cardinality(db.graded_price) = 2

\* a listings snapshot is in the store with one MarketListing per item
ListingsComplete(store) ==
    \A s \in store.price_snapshot :
        "listings" \in DOMAIN s.payload
        => Cardinality({m \in store.market_listing : m.snapshot_id = s.id})
              = Len(s.payload.listings)

\* C23: a listings sub-flow that fails at its snapshot, its listing rows or
\* its commit leaves none of them behind, neither committed nor pending in
\* the session, and leaves every committed row as it was, the PriceSnapshot
\* and GradedPrice of the valuation sub-flow of the same call included; every
\* committed listings snapshot has all its MarketListing rows.
C23_ListingsRollback ==
    [][/\ ListingsComplete(db')
       /\ \A p \in Sessions :
             (proc[p].pc = "E_commit" /\ proc'[p].pc = "done")
             => \/ /\ db' = db
                   /\ tx'[p] = EmptyStore
                \/ /\ \A t \in Tables : db[t] \subseteq db'[t]
                   /\ SnapshotsOf(proc[p].issue, "eBay")' # SnapshotsOf(proc[p].issue, "eBay")
                   /\ proc'[p].conflict = "none"]_vars

\* the commit of the listings broke NOT NULL after the valuation sub-flow of
\* the same call had committed its snapshot and GradedPrice
C23_Witness ==
    /\ Priced(1)
    /\ proc[1].conflict = "not_null"
    /\ SnapshotsOf(proc[1].issue, "GoCollect") # {}
    /\ db.graded_price # {}
    /\ SnapshotsOf(proc[1].issue, "eBay") = {}
    /\ db.market_listing = {}
    /\ tx[1] = EmptyStore

\* C24: when no local Series matches and the catalog search gives no
\* candidate (the fetch failed, the credential is unset, or the response
\* holds no results), the reconcile returns None at once: no row is
\* committed and none is left pending in the session.
C24_NoCatalogMatch ==
    [][\A p \in Sessions :
          LET key == SearchKey(proc[p].title) IN
          (/\ proc[p].pc = "S_create"
           /\ proc'[p] # proc[p]
           /\ \/ key \notin CacheKeys(api_cache')
              \/ Results(CacheGet(api_cache', key)) = <<>>)
          => /\ proc'[p].pc = "done"
             /\ proc'[p].result = None
             /\ ~proc'[p].fault
             /\ db' = db
             /\ tx'[p] = EmptyStore]_vars

\* the search succeeded without results and the reconcile returned None,
\* the store still empty
C24_Witness ==
    /\ Reconciled(1)
    /\ proc[1].result = None
    /\ proc[1].calls = 1
    /\ ~proc[1].fault
    /\ env = Credentials
    /\ catalog = CatalogEmpty
    /\ proc[1].title = TitleASM
    /\ SearchKey(TitleASM) \in CacheKeys(api_cache)
    /\ db = EmptyStore
    /\ tx[1] = EmptyStore

CatalogTables == {"series", "issue", "source_xref"}

\* C25: no step of a reconcile removes a committed Series, Issue or
\* SourceXref row or changes one of its attributes: every committed row is
\* still there, as it was, after the step; reconcile only adds rows.
C25_CreateOnce ==
    [][\A t \in CatalogTables : db[t] \subseteq db'[t]]_vars

\* a later reconcile has added a second Issue and its cross-reference to the
\* rows of an earlier one
C25_Witness ==
    /\ Reconciled(1)
    /\ proc[1].result = 2
    /\ Cardinality(db.series) = 1
    /\ Cardinality(db.issue) = 2
    /\ Cardinality(db.source_xref) = 3

---------------------------------------------------------------------------
(* ComicBookAgent of agent.py: run() calls reason_and_act() until the      *)
(* state dictionary says is_finished.  Each call takes the first branch    *)
(* whose field is still falsy: series_title, issue_id, grade; the last     *)
(* branch prices the issue and finishes.                                   *)

\* the counter of reason_and_act calls saturates here
MaxSteps == 6

\* grades are held as <<tenths>>, None as <<>>; `not grade' is true of None
\* and of 0.0, `not series_title' of None and of the empty string
Falsy(field) == field = <<>> \/ field = <<0>>

HeavyDefects == [i \in 1..10 |-> "crease_light"]

\* what tool_analyze_image may return: the two results of the mock and a
\* comic whose defects add up to ten points
VisionResults ==
    { [series_title |-> TitleASM, issue_number |-> "101", defects |-> <<"spine_tick">>],
      [series_title |-> TitleAM, issue_number |-> "101",
       defects |-> <<"spine_tick", "corner_blunt">>],
      [series_title |-> TitleASM, issue_number |-> "101", defects |-> HeavyDefects] }

\* ComicBookAgent.__init__
NewAgent(vision) ==
    [vision |-> vision, series_title |-> <<>>, issue_number |-> "", defects |-> <<>>,
     issue_id |-> None, grade |-> <<>>, is_finished |-> FALSE, raised |-> FALSE,
     steps |-> 0]

\* run(): while not self.state['is_finished'], and no exception has left it
Looping == ~agent.is_finished /\ ~agent.raised /\ proc[1].pc = "idle"

Step == IF agent.steps < MaxSteps THEN agent.steps + 1 ELSE MaxSteps

\* if not series_title: state.update(tool_analyze_image(image_path))
A_Vision ==
    /\ Looping
    /\ Falsy(agent.series_title)
    /\ agent' = [agent EXCEPT !.series_title = agent.vision.series_title,
                              !.issue_number = agent.vision.issue_number,
                              !.defects = agent.vision.defects,
                              !.steps = Step]
    /\ UNCHANGED <<db, tx, proc, api_cache, env, catalog, market, faulty, workload, batch,
                   ops, last, fetchlog>>

\* elif not issue_id: get_or_create_issue_from_comicvine(db, title, number)
A_Reconcile ==
    /\ Looping
    /\ ~Falsy(agent.series_title)
    /\ agent.issue_id = None
    /\ agent' = [agent EXCEPT !.steps = Step]
    /\ Set(1, [Idle EXCEPT !.pc = "R_lookup", !.op = "reconcile",
                           !.title = agent.series_title, !.num = agent.issue_number,
                           !.expect = 0])
    /\ UNCHANGED <<db, tx, api_cache, env, catalog, market, faulty, workload, batch,
                   ops, last, fetchlog>>

\* the reconcile is back: an Issue gives issue_id, None gives is_finished,
\* an exception leaves reason_and_act and run()
A_Reconciled ==
    /\ ~agent.is_finished /\ ~agent.raised
    /\ proc[1].pc = "done" /\ proc[1].op = "reconcile"
    /\ agent' = IF proc[1].result = Raised THEN [agent EXCEPT !.raised = TRUE]
                ELSE IF proc[1].result = None THEN [agent EXCEPT !.is_finished = TRUE]
                ELSE [agent EXCEPT !.issue_id = proc[1].result]
    /\ Set(1, Idle)
    /\ UNCHANGED <<db, tx, api_cache, env, catalog, market, faulty, workload, batch,
                   ops, last, fetchlog>>

\* elif not grade: grade = tool_calculate_grade(defects)
A_Grade ==
    /\ Looping
    /\ ~Falsy(agent.series_title)
    /\ agent.issue_id # None
    /\ Falsy(agent.grade)
    /\ agent' = [agent EXCEPT !.grade = <<ApplyGradingRules(agent.defects)>>,
                              !.steps = Step]
    /\ UNCHANGED <<db, tx, proc, api_cache, env, catalog, market, faulty, workload, batch,
                   ops, last, fetchlog>>

\* else: update_pricing_for_issue(db, issue_obj, grade)
A_Price ==
    /\ Looping
    /\ ~Falsy(agent.series_title)
    /\ agent.issue_id # None
    /\ ~Falsy(agent.grade)
    /\ agent' = [agent EXCEPT !.steps = Step]
    /\ Set(1, [Idle EXCEPT !.pc = "GS_query", !.op = "pricing",
                           !.issue = agent.issue_id,
                           !.grade = GradeStr(agent.grade[1]),
                           !.sname = "GoCollect", !.ret = "G_xref"])
    /\ UNCHANGED <<db, tx, api_cache, env, catalog, market, faulty, workload, batch,
                   ops, last, fetchlog>>

\* the pricing is back: is_finished = True, unless an exception left the call
A_Priced ==
    /\ ~agent.is_finished /\ ~agent.raised
    /\ proc[1].pc = "done" /\ proc[1].op = "pricing"
    /\ agent' = IF proc[1].result = Raised THEN [agent EXCEPT !.raised = TRUE]
                ELSE [agent EXCEPT !.is_finished = TRUE]
    /\ Set(1, Idle)
    /\ UNCHANGED <<db, tx, api_cache, env, catalog, market, faulty, workload, batch,
                   ops, last, fetchlog>>

ReasonAndAct == A_Vision \/ A_Reconcile \/ A_Reconciled \/ A_Grade \/ A_Price \/ A_Priced

\* an agent is constructed for one image, on a new store or on the store an
\* earlier run has left, with an unreliable database
InitAgent ==
    /\ db \in {EmptyStore, StoreLinked}
    /\ tx = [p \in Sessions |-> EmptyStore]
    /\ proc = [p \in Sessions |-> Idle]
    /\ api_cache = {}
    /\ ops = MaxOps
    /\ last = NoLast
    /\ fetchlog = NoFetch
    /\ batch = NoBatch
    /\ agent \in {NewAgent(v) : v \in VisionResults}
    /\ env = Credentials
    /\ catalog = CatalogClean
    /\ market \in {MarketGood, MarketSilent}
    /\ faulty \in BOOLEAN
    /\ workload = {}

NextAgent == ReasonAndAct \/ ReconcileSteps(1) \/ PricingSteps(1)

\* run() is one sequential loop: it keeps calling reason_and_act
SpecAgent == InitAgent /\ [][NextAgent]_vars /\ WF_vars(NextAgent)

\* C26: whatever the vision step returns and however the reconcile and the
\* pricing end, run() reaches is_finished = True, and it does so within four
\* reason_and_act calls (vision, reconcile, grade, pricing).
C26_AgentTerminates == <>agent.is_finished /\ [](agent.steps <= 4)

\* the issue sub-step of a reconcile: from the Source lookup of
\* _get_or_create_issue_for_series to its commit
InIssueStep(r) ==
    /\ r.op = "reconcile"
    /\ \/ r.pc \in {"I_xref", "I_create", "I_commit"}
       \/ r.pc \in {"GS_query", "GS_commit"} /\ r.ret = "I_xref"

\* the Series and a cross-reference of type 'series' to it are committed
SeriesCommitted(store, series_id) ==
    /\ \E s \in store.series : s.id = series_id
    /\ \E x \in store.source_xref : x.entity_type = "series" /\ x.entity_id = series_id

\* C27: a reconcile that has created a Series and whose issue sub-step ends
\* without an Issue (no catalog issue of that number, or an error in the
\* sub-step) returns None, and the new Series and its 'series'
\* cross-reference are still committed.
C27_SeriesKept ==
    [][\A p \in Sessions :
          (/\ InIssueStep(proc[p])
           /\ proc[p].created > 0
           /\ proc'[p].pc = "done"
           /\ ~(\E i \in db'.issue : i.id = proc'[p].result))
          => /\ proc'[p].result = None
             /\ SeriesCommitted(db', proc[p].created)
             /\ tx'[p] = EmptyStore]_vars

\* a reconcile created a Series, flushed an Issue, failed before the issue's
\* commit and returned None; the Series and its cross-reference are there
C27_Witness ==
    \E p \in Sessions :
        /\ Reconciled(p)
        /\ proc[p].created > 0
        /\ proc[p].issue > 0
        /\ proc[p].result = None
        /\ SeriesCommitted(db, proc[p].created)
        /\ \A i \in db.issue : i.id # proc[p].issue

====
